---- MODULE Spec2Model ----
(***************************************************************************)
(* A model of nswcaselaw: the query builder, the results-page parser and   *)
(* the search pager of src/nswcaselaw/search.py, the court directory of    *)
(* src/nswcaselaw/constants.py, and the decision record with its two       *)
(* layout scrapers of src/nswcaselaw/decision.py.                          *)
(*                                                                         *)
(* Python values are tagged records: None is [t |-> "None"], a str is      *)
(* [t |-> "str", v |-> ...], a list is [t |-> "list", v |-> <<...>>], a    *)
(* Decision is [t |-> "Decision", ...].  A call that may raise returns     *)
(* [exc |-> <exception or NoExc>, val |-> <value>].                        *)
(***************************************************************************)
EXTENDS Integers, Sequences, FiniteSets, TLC

VARIABLES
    query,      \* Search._query: field name -> Python value
    params,     \* Search._params: None, or the list of (name, value) tuples
    pc,         \* position of the running operation
    raised,     \* the exception that left the operation, or NoExc
    r,          \* results(): the local r, the last response received
    n_results,  \* results(): the local n_results (Unbound until assigned)
    results,    \* results(): the records of the current page not yet yielded
    n_pages,    \* results(): the local n_pages
    page,       \* results(): the loop variable page (0 before the loop)
    n,          \* results(): the local n of line 128 (Unbound until assigned)
    log,        \* what the collaborators saw, in order: get, sleep, yield
    decision,   \* the Decision object: its _values dict, or None before it exists
    arg,        \* the argument of the call of a function run on its own
    ret         \* the value the call returned, None before it returns

vars == <<query, params, pc, raised, r, n_results, results, n_pages, page, n,
          log, decision, arg, ret>>

----------------------------------------------------------------------------
(* Bounds of the model *)

\* longest list of ordinals a request selects in one category
MaxSel == 2
\* most text fields a request sets
MaxSet == 1
\* most result-row containers on one page
MaxRows == 2
\* most pages a reported total spans
MaxPages == 3
\* how far below 1 and above the size of a table a looked-up ordinal lies
MaxOut == 2
\* most labels of a decision page that depart from the complete page
MaxVaried == 1
\* most children of the body of a decision page, and of a judgment cell
MaxKids == 2

----------------------------------------------------------------------------
(* Python values *)

PyNone == [t |-> "None"]
PyStr(s) == [t |-> "str", v |-> s]
PyList(l) == [t |-> "list", v |-> l]

NoExc == [type |-> "none", msg |-> ""]
Exc(type, msg) == [type |-> type, msg |-> msg]
Ok(v) == [exc |-> NoExc, val |-> v]
Raise(type, msg) == [exc |-> Exc(type, msg), val |-> PyNone]

Unbound == -1

DigitChar(d) ==
    CASE d = 0 -> "0" [] d = 1 -> "1" [] d = 2 -> "2" [] d = 3 -> "3"
      [] d = 4 -> "4" [] d = 5 -> "5" [] d = 6 -> "6" [] d = 7 -> "7"
      [] d = 8 -> "8" [] d = 9 -> "9"

\* str(i) for a non-negative int
RECURSIVE str(_)
str(i) == IF i < 10 THEN DigitChar(i) ELSE str(i \div 10) \o DigitChar(i % 10)

\* "".join(strings)
RECURSIVE Join(_)
Join(strings) ==
    IF strings = <<>> THEN "" ELSE Head(strings) \o Join(Tail(strings))

\* the decimal digits of a non-negative int, most significant first
RECURSIVE Digits(_)
Digits(i) == IF i < 10 THEN <<i>> ELSE Append(Digits(i \div 10), i % 10)

\* int(digits)
RECURSIVE int(_)
int(ds) ==
    IF ds = <<>> THEN 0 ELSE 10 * int(SubSeq(ds, 1, Len(ds) - 1)) + ds[Len(ds)]

----------------------------------------------------------------------------
(* constants.py *)

CASELAW_SEARCH_URL == "https://www.caselaw.nsw.gov.au/search/advanced"

COURTS ==
    [courts |-> <<
        <<"54a634063004de94513d827a", "Children's Court">>,
        <<"54a634063004de94513d827b", "Compensation Court">>,
        <<"54a634063004de94513d8278", "Court of Appeal">>,
        <<"54a634063004de94513d8279", "Court of Criminal Appeal">>,
        <<"54a634063004de94513d827c", "District Court">>,
        <<"54a634063004de94513d827d", "Drug Court">>,
        <<"54a634063004de94513d828e", "Industrial Court">>,
        <<"54a634063004de94513d8285", "Industrial Relations Commission (Commissioners)">>,
        <<"54a634063004de94513d827e", "Industrial Relations Commission (Judges)">>,
        <<"54a634063004de94513d827f", "Land and Environment Court (Commissioners)">>,
        <<"54a634063004de94513d8286", "Land and Environment Court (Judges)">>,
        <<"54a634063004de94513d8280", "Local Court">>,
        <<"54a634063004de94513d8281", "Supreme Court">> >>,
     tribunals |-> <<
        <<"54a634063004de94513d8282", "Administrative Decisions Tribunal (Appeal Panel)">>,
        <<"54a634063004de94513d8287", "Administrative Decisions Tribunal (Divisions)">>,
        <<"54a634063004de94513d8289", "Civil and Administrative Tribunal (Administrative and Equal Opportunity Division)">>,
        <<"54a634063004de94513d828d", "Civil and Administrative Tribunal (Appeal Panel)">>,
        <<"54a634063004de94513d828b", "Civil and Administrative Tribunal (Consumer and Commercial Division)">>,
        <<"173b71a8beab2951cc1fab8d", "Civil and Administrative Tribunal (Enforcement)">>,
        <<"54a634063004de94513d828c", "Civil and Administrative Tribunal (Guardianship Division)">>,
        <<"54a634063004de94513d828a", "Civil and Administrative Tribunal (Occupational Division)">>,
        <<"54a634063004de94513d8283", "Dust Diseases Tribunal">>,
        <<"1723173e41f6b6d63f2105d3", "Equal Opportunity Tribunal">>,
        <<"5e5c92e1e4b0c8604babc749", "Fair Trading Tribunal">>,
        <<"5e5c92c5e4b0c8604babc748", "Legal Services Tribunal">>,
        <<"54a634063004de94513d8284", "Medical Tribunal">>,
        <<"54a634063004de94513d8288", "Transport Appeal Boards">> >>]

\* index_to_court reading position court_idx of the table as a 0-based index
index_to_court_ZeroBased(court_type, court_idx) ==
    IF court_type \notin DOMAIN COURTS
    THEN Raise("ValueError", "Unknown court type")
    ELSE IF court_idx < 0 \/ court_idx >= Len(COURTS[court_type])
    THEN Raise("ValueError", "Court index out of range")
    ELSE Ok(COURTS[court_type][court_idx + 1])

\* index_to_court(court_type, court_idx)
index_to_court(court_type, court_idx) ==
    IF court_type \notin DOMAIN COURTS
    THEN Raise("ValueError", "Unknown court type")
    ELSE IF court_idx < 1 \/ court_idx > Len(COURTS[court_type])
    THEN Raise("ValueError", "Court index out of range")
    ELSE Ok(COURTS[court_type][court_idx])

----------------------------------------------------------------------------
(* search.py: the request and the query builder *)

TEXT_FIELDS ==
    <<"body", "title", "before", "catchwords", "party", "mnc", "startDate",
      "endDate", "fileNumber", "legislationCited", "casesCited">>

COURTS_FIELDS == <<"courts", "tribunals">>

PAGE_SIZE == 20

SEARCH_PAUSE_SECONDS == 10

Range(s) == {s[i] : i \in DOMAIN s}

\* kwargs.get(field): None when the keyword was not given
KwGet(kwargs, field) ==
    IF field \in DOMAIN kwargs THEN kwargs[field] ELSE PyNone

\* Search.__init__(**kwargs): the _query dict
SearchInit(kwargs) ==
    [field \in Range(TEXT_FIELDS \o COURTS_FIELDS) |-> KwGet(kwargs, field)]

\* self._query.get(field, ""): the default applies only to a missing key
QueryGet(q, field) == IF field \in DOMAIN q THEN q[field] ELSE PyStr("")

\* CourtIds taking element [1] of the pair, the name, instead of element [0]
RECURSIVE CourtIds_Names(_, _)
CourtIds_Names(court_type, indices) ==
    IF indices = <<>> THEN Ok(<<>>)
    ELSE LET c == index_to_court(court_type, Head(indices))
         IN  IF c.exc # NoExc THEN c
             ELSE LET rest == CourtIds_Names(court_type, Tail(indices))
                  IN  IF rest.exc # NoExc THEN rest
                      ELSE Ok(<<c.val[2]>> \o rest.val)

\* [index_to_court(court_type, idx)[0] for idx in indices]: the first
\* exception ends the comprehension
RECURSIVE CourtIds(_, _)
CourtIds(court_type, indices) ==
    IF indices = <<>> THEN Ok(<<>>)
    ELSE LET c == index_to_court(court_type, Head(indices))
         IN  IF c.exc # NoExc THEN c
             ELSE LET rest == CourtIds(court_type, Tail(indices))
                  IN  IF rest.exc # NoExc THEN rest
                      ELSE Ok(<<c.val[1]>> \o rest.val)

\* CourtParams with the flag emitted only for the entries not selected
RECURSIVE CourtParams_FlagIfUnselected(_, _, _)
CourtParams_FlagIfUnselected(court_type, ids, i) ==
    IF i > Len(COURTS[court_type]) THEN <<>>
    ELSE LET court == COURTS[court_type][i]
         IN  (IF court[1] \in Range(ids)
              THEN <<<<court_type, PyStr(court[1])>>>>
              ELSE <<<<"_" \o court_type, PyStr("on")>>>>)
             \o CourtParams_FlagIfUnselected(court_type, ids, i + 1)

\* CourtParams with one value parameter for every occurrence of the entry in
\* ids instead of one for its membership
RECURSIVE CourtParams_PerOccurrence(_, _, _)
CourtParams_PerOccurrence(court_type, ids, i) ==
    IF i > Len(COURTS[court_type]) THEN <<>>
    ELSE LET court == COURTS[court_type][i]
         IN  [j \in 1..Len(SelectSeq(ids, LAMBDA x : x = court[1])) |->
                 <<court_type, PyStr(court[1])>>]
             \o <<<<"_" \o court_type, PyStr("on")>>>>
             \o CourtParams_PerOccurrence(court_type, ids, i + 1)

\* the loop of courts_query over COURTS[court_type], from entry i on
RECURSIVE CourtParams(_, _, _)
CourtParams(court_type, ids, i) ==
    IF i > Len(COURTS[court_type]) THEN <<>>
    ELSE LET court == COURTS[court_type][i]
         IN  (IF court[1] \in Range(ids)
              THEN <<<<court_type, PyStr(court[1])>>>> ELSE <<>>)
             \o <<<<"_" \o court_type, PyStr("on")>>>>
             \o CourtParams(court_type, ids, i + 1)

\* Search.courts_query(court_type, indices)
courts_query(court_type, indices) ==
    LET ids == IF indices # PyNone THEN CourtIds(court_type, indices.v)
               ELSE Ok(<<>>)
    IN  IF ids.exc # NoExc THEN ids
        ELSE Ok(CourtParams(court_type, ids.val, 1))

\* Search.build_query(): the exception, if one leaves it, and the value of
\* _params it leaves behind (the list is assigned first and extended in place)
build_query(q) ==
    LET text == [i \in 1..Len(TEXT_FIELDS) |->
                    <<TEXT_FIELDS[i], QueryGet(q, TEXT_FIELDS[i])>>]
        base == <<<<"page", PyStr("")>>>> \o text
        c1 == courts_query(COURTS_FIELDS[1], q[COURTS_FIELDS[1]])
        c2 == courts_query(COURTS_FIELDS[2], q[COURTS_FIELDS[2]])
    IN  IF c1.exc # NoExc THEN [exc |-> c1.exc, val |-> base]
        ELSE IF c2.exc # NoExc THEN [exc |-> c2.exc, val |-> base \o c1.val]
        ELSE Ok(base \o c1.val \o c2.val)

----------------------------------------------------------------------------
(* A results page as the HTML parser presents it *)

\* A line of text is a sequence of tokens separated by single spaces: a word
\* or a run of decimal digits.
W(w) == [k |-> "word", w |-> w]
D(ds) == [k |-> "digits", ds |-> ds]

\* RESULTS_RE = "Displaying \d+ - \d+ of (\d+)", applied with match(): the
\* pattern is anchored at the start of the line and not at its end.  The
\* value is the match object (group 1) or None.
RESULTS_RE_match(line) ==
    IF /\ Len(line) >= 6
       /\ line[1] = W("Displaying")
       /\ line[2].k = "digits"
       /\ line[3] = W("-")
       /\ line[4].k = "digits"
       /\ line[5] = W("of")
       /\ line[6].k = "digits"
    THEN [t |-> "Match", g1 |-> line[6].ds]
    ELSE PyNone

\* Decision(**kwargs): _values holds every BASE_FIELD, None when not given
Decision(kwargs) ==
    [t |-> "Decision",
     title |-> KwGet(kwargs, "title"),
     uri |-> KwGet(kwargs, "uri"),
     before |-> KwGet(kwargs, "before"),
     decisionDate |-> KwGet(kwargs, "decisionDate"),
     catchwords |-> KwGet(kwargs, "catchwords")]

\* Search.scrape_one_result(row).  A row is
\*   [h4: has an h4, a: the h4 has an anchor, href: the anchor's href or
\*    None, text: the anchor's stripped strings, divs: the div siblings after
\*    the h4, each the list of its p elements' stripped strings,
\*    ul: has a ul, lis: the stripped strings of its li.list-group-item]
scrape_one_result(row) ==
    IF ~row.h4 THEN PyNone          \* header is None: AttributeError, caught
    ELSE IF ~row.a THEN PyNone      \* link is None: TypeError, caught
    ELSE IF row.href = PyNone THEN PyNone   \* no href: KeyError, caught
    ELSE LET cps == IF row.divs # <<>> THEN row.divs[1] ELSE <<>>
             catchwords == IF Len(cps) > 1 THEN Join(cps[2]) ELSE ""
             values == IF row.ul THEN row.lis ELSE <<>>
             before == IF Len(values) >= 2 THEN Join(values[2]) ELSE ""
             date == IF Len(values) >= 4 THEN Join(values[4]) ELSE ""
         IN  Decision([title |-> PyStr(Join(row.text)),
                       uri |-> row.href,
                       catchwords |-> PyStr(catchwords),
                       before |-> PyStr(before),
                       decisionDate |-> PyStr(date)])

\* scrape_results without the test of n_results on line 152
scrape_results_NoZeroTest(html) ==
    IF ~html.h1
    THEN Raise("AttributeError",
               "'NoneType' object has no attribute 'stripped_strings'")
    ELSE IF Len(html.header_strings) < 2
    THEN Raise("CaseLawException", "Couldn't get results element from HTML")
    ELSE LET m == RESULTS_RE_match(html.header_strings[2])
         IN  IF m = PyNone
             THEN Raise("CaseLawException",
                        "Couldn't get number of results from HTML")
             ELSE Ok(<<int(m.g1), [i \in 1..Len(html.rows) |->
                                      scrape_one_result(html.rows[i])]>>)

\* Search.scrape_results(html).  A page is
\*   [h1: has an h1, header_strings: the h1's stripped strings (lines),
\*    rows: the div.row.result containers in document order]
\* The value is the pair <<n_results, decisions>>.
scrape_results(html) ==
    IF ~html.h1
    THEN Raise("AttributeError",
               "'NoneType' object has no attribute 'stripped_strings'")
    ELSE IF Len(html.header_strings) < 2
    THEN Raise("CaseLawException", "Couldn't get results element from HTML")
    ELSE LET m == RESULTS_RE_match(html.header_strings[2])
         IN  IF m = PyNone
             THEN Raise("CaseLawException",
                        "Couldn't get number of results from HTML")
             ELSE LET nr == int(m.g1)
                  IN  IF nr # 0
                      THEN Ok(<<nr, [i \in 1..Len(html.rows) |->
                                        scrape_one_result(html.rows[i])]>>)
                      ELSE Ok(<<nr, <<>> >>)

----------------------------------------------------------------------------
(* The inputs: requests, pages and responses *)

SeqsUpTo(S, k) == UNION {[1..m -> S] : m \in 0..k}

Min(a, b) == IF a < b THEN a ELSE b

\* the ordinals a request may select: the first two and the last entry of
\* the category and the two ordinals just outside the table
OrdinalChoices(court_type) ==
    {0, 1, 2, Len(COURTS[court_type]), Len(COURTS[court_type]) + 1}

\* a selection of a category: not given, or a list of ordinals
Selections(court_type) ==
    {PyNone} \cup {PyList(l) : l \in SeqsUpTo(OrdinalChoices(court_type), MaxSel)}

\* the keyword arguments of a request: K the text fields set
Kwargs(K, courts, tribunals) ==
    [f \in K \cup {c \in Range(COURTS_FIELDS) :
                     (IF c = "courts" THEN courts ELSE tribunals) # PyNone} |->
        IF f = "courts" THEN courts
        ELSE IF f = "tribunals" THEN tribunals
        ELSE PyStr("defamation")]

\* the requests build_query is run on: every choice of text fields with
\* no selection or one court, every pair of selections with no text, and
\* every single entry of either table
Requests ==
    {Kwargs(K, c, PyNone) :
        K \in {S \in SUBSET Range(TEXT_FIELDS) : Cardinality(S) <= MaxSet},
        c \in {PyNone, PyList(<<1>>)}}
    \cup {Kwargs({}, c, t) :
            c \in Selections("courts"), t \in Selections("tribunals")}
    \cup {Kwargs({}, PyList(<<i>>), PyNone) : i \in 1..Len(COURTS["courts"])}
    \cup {Kwargs({}, PyNone, PyList(<<i>>)) :
            i \in 1..Len(COURTS["tribunals"])}

\* the requests the pager is run with: the example of the package
\* documentation, and a selection outside the table
PagerRequests ==
    {Kwargs({"catchwords"}, PyList(<<13>>), PyNone),
     Kwargs({}, PyList(<<1>>), PyList(<<15>>))}

\* the totals a page may report
Totals ==
    {0, 1} \cup {k * PAGE_SIZE + d : k \in 1..(MaxPages - 1), d \in {0, 1}}

TitleLine == <<W("Search"), W("results")>>

\* "Displaying <start> - <end> of <total>" on page p
DisplayLine(p, total) ==
    <<W("Displaying"), D(Digits(Min(p * PAGE_SIZE + 1, total))), W("-"),
      D(Digits(Min((p + 1) * PAGE_SIZE, total))), W("of"), D(Digits(total))>>

\* the headings of page p: [h1, header_strings]
Headings(p) ==
    {[h1 |-> FALSE, header_strings |-> <<>>],
     [h1 |-> TRUE, header_strings |-> <<>>],
     [h1 |-> TRUE, header_strings |-> <<TitleLine>>],
     [h1 |-> TRUE, header_strings |->
        <<TitleLine, <<W("No"), W("results"), W("found")>> >>],
     [h1 |-> TRUE, header_strings |->
        <<TitleLine, <<W("Results:")>> \o DisplayLine(p, 1)>>],
     [h1 |-> TRUE, header_strings |->
        <<TitleLine, DisplayLine(p, 1) \o <<W("matches")>>, <<W("sorted")>> >>]}
    \cup {[h1 |-> TRUE, header_strings |-> <<TitleLine, DisplayLine(p, t)>>] :
            t \in Totals}

\* the i-th result row of page p, complete: a details block with two
\* paragraphs and a list of four items
FullRow(p, i) ==
    [h4 |-> TRUE, a |-> TRUE,
     href |-> PyStr("/decision/" \o str(p) \o "x" \o str(i)),
     text |-> <<"R v ", str(p), "-", str(i)>>,
     divs |-> << << <<"Decision", "text">>, <<"CRIME", " - appeal">> >> >>,
     ul |-> TRUE,
     lis |-> << <<"Court">>, <<"Smith", " J">>, <<"x">>, <<"1 May ", "2020">> >>]

\* the same row without details block and without list
BareRow(p, i) ==
    [h4 |-> TRUE, a |-> TRUE,
     href |-> PyStr("/decision/" \o str(p) \o "x" \o str(i)),
     text |-> <<"Re ", str(p), "-", str(i)>>,
     divs |-> <<>>, ul |-> FALSE, lis |-> <<>>]

\* a row with one paragraph in its details block and two list items
ShortRow(p, i) ==
    [h4 |-> TRUE, a |-> TRUE,
     href |-> PyStr("/decision/" \o str(p) \o "x" \o str(i)),
     text |-> <<"In re ", str(p), "-", str(i)>>,
     divs |-> << << <<"Decision">> >>, << <<"a">>, <<"b">> >> >>,
     ul |-> TRUE,
     lis |-> << <<"Court">>, <<"Jones J">> >>]

\* rows whose extraction raises: no h4, no anchor, an anchor without href
NoHeadingRow ==
    [h4 |-> FALSE, a |-> FALSE, href |-> PyNone, text |-> <<>>,
     divs |-> <<>>, ul |-> TRUE, lis |-> << <<"Court">> >>]
NoAnchorRow ==
    [h4 |-> TRUE, a |-> FALSE, href |-> PyNone, text |-> <<>>,
     divs |-> <<>>, ul |-> FALSE, lis |-> <<>>]
NoHrefRow ==
    [h4 |-> TRUE, a |-> TRUE, href |-> PyNone, text |-> <<"R v X">>,
     divs |-> <<>>, ul |-> FALSE, lis |-> <<>>]

\* every variant of the i-th row of page p
RowVariants(p, i) ==
    {FullRow(p, i), BareRow(p, i), ShortRow(p, i),
     NoHeadingRow, NoAnchorRow, NoHrefRow}

\* the row lists of page p: every variant in every position
RowLists(p) ==
    {f \in SeqsUpTo(UNION {RowVariants(p, i) : i \in 1..MaxRows}, MaxRows) :
        \A i \in DOMAIN f : f[i] \in RowVariants(p, i)}

\* the row lists the pager is run over: any number of complete rows, and a
\* full page whose first row is one whose extraction raises
PagerRowLists(p) ==
    {[i \in 1..m |-> FullRow(p, i)] : m \in 0..MaxRows}
    \cup {[i \in 1..MaxRows |-> IF i = 1 THEN NoAnchorRow ELSE FullRow(p, i)]}

\* the pages with the given headings and row lists
PagesOf(H, R) ==
    {[h1 |-> h.h1, header_strings |-> h.header_strings, rows |-> rows] :
        h \in H, rows \in R}

Pages(p) == PagesOf(Headings(p), RowLists(p))

PagerPages(p) == PagesOf(Headings(p), PagerRowLists(p))

ErrorPage == [h1 |-> FALSE, header_strings |-> <<>>, rows |-> <<>>]

ErrorStatuses == {404, 500}

\* what requests.get may return for page p
Responses(p) ==
    {[status_code |-> 200, text |-> pg] : pg \in PagerPages(p)}
    \cup {[status_code |-> sc, text |-> ErrorPage] : sc \in ErrorStatuses}

NoResponse == [status_code |-> 0, text |-> ErrorPage]

----------------------------------------------------------------------------
(* search.py: Search.results, the pager *)

\* a request: the page parameter sent, the status received, whether the
\* page was parsed, and the records parsed from it
GetEvent(pageparam, resp, o) ==
    [ev |-> "get", page |-> pageparam, status |-> resp.status_code,
     parsed |-> resp.status_code = 200 /\ o.exc = NoExc,
     results |-> o.results]
SleepEvent(secs) == [ev |-> "sleep", secs |-> secs]
YieldEvent(v) == [ev |-> "yield", value |-> v]

\* lines 114-120: what the response to the first request leads to:
\* the exception that leaves results(), n_results, the records to yield and
\* whether the generator returns
FirstPage(resp, nr) ==
    IF resp.status_code = 200
    THEN LET s == scrape_results(resp.text)
         IN  IF s.exc # NoExc
             THEN [exc |-> s.exc, n_results |-> nr, results |-> <<>>,
                   return |-> FALSE]
             ELSE [exc |-> NoExc, n_results |-> s.val[1],
                   results |-> s.val[2], return |-> s.val[1] = 0]
    ELSE [exc |-> NoExc, n_results |-> nr, results |-> <<>>, return |-> FALSE]

\* NextPage without the else branch of line 131, as on the first page
NextPage_NoRaise(resp, nn) ==
    IF resp.status_code = 200
    THEN LET s == scrape_results(resp.text)
         IN  IF s.exc # NoExc
             THEN [exc |-> s.exc, n |-> nn, results |-> <<>>]
             ELSE [exc |-> NoExc, n |-> s.val[1], results |-> s.val[2]]
    ELSE [exc |-> NoExc, n |-> nn, results |-> <<>>]

\* lines 127-132: what the response to a later request leads to
NextPage(resp, nn) ==
    IF resp.status_code = 200
    THEN LET s == scrape_results(resp.text)
         IN  IF s.exc # NoExc
             THEN [exc |-> s.exc, n |-> nn, results |-> <<>>]
             ELSE [exc |-> NoExc, n |-> s.val[1], results |-> s.val[2]]
    ELSE [exc |-> Exc("CaseLawException",
                      "Bad status_code " \o str(resp.status_code)),
          n |-> nn, results |-> <<>>]

\* AfterPage when the records of a page are not yielded as they arrive
AfterPage_NoYield(res, pg) == IF pg = 0 THEN "n_pages" ELSE "loop"

\* where the generator stands once page pg has been scraped: in the loop
\* that yields its records, or past it
AfterPage(res, pg) ==
    IF res # <<>> THEN "yield" ELSE IF pg = 0 THEN "n_pages" ELSE "loop"

\* NPages with n_results // PAGE_SIZE + 1
NPages_Floor(nr) == nr \div PAGE_SIZE + 1

\* line 121
NPages(nr) == (nr - 1) \div PAGE_SIZE + 1

\* lines 111-120, up to the first yield or the end of the first page
FetchFirstPage ==
    /\ pc = "start"
    /\ LET b == build_query(query)
       IN  /\ params' = PyList(b.val)
           /\ IF b.exc # NoExc
              THEN /\ pc' = "raised"
                   /\ raised' = b.exc
                   /\ UNCHANGED <<r, n_results, results, log>>
              ELSE \E resp \in Responses(0) :
                     LET o == FirstPage(resp, n_results)
                     IN  /\ r' = resp
                         /\ log' = Append(log,
                                GetEvent(b.val[1][2].v, resp, o))
                         /\ n_results' = o.n_results
                         /\ results' = o.results
                         /\ raised' = o.exc
                         /\ pc' = IF o.exc # NoExc THEN "raised"
                                  ELSE IF o.return THEN "done"
                                  ELSE IF resp.status_code = 200
                                  THEN AfterPage(o.results, 0)
                                  ELSE "n_pages"
    /\ UNCHANGED <<decision, arg, ret>>
    /\ UNCHANGED <<query, n_pages, page, n>>

\* lines 120 and 130: yield result
YieldResult ==
    /\ pc = "yield"
    /\ log' = Append(log, YieldEvent(Head(results)))
    /\ results' = Tail(results)
    /\ pc' = AfterPage(Tail(results), page)
    /\ UNCHANGED <<decision, arg, ret>>
    /\ UNCHANGED <<query, params, raised, r, n_results, n_pages, page, n>>

\* line 121: n_pages = (n_results - 1) // PAGE_SIZE + 1
ComputePages ==
    /\ pc = "n_pages"
    /\ IF n_results = Unbound
       THEN /\ pc' = "raised"
            /\ raised' = Exc("UnboundLocalError", "n_results")
            /\ UNCHANGED n_pages
       ELSE /\ pc' = "loop"
            /\ n_pages' = NPages(n_results)
            /\ UNCHANGED raised
    /\ UNCHANGED <<decision, arg, ret>>
    /\ UNCHANGED <<query, params, r, n_results, results, page, n, log>>

\* lines 122-123: the next page of range(1, n_pages), and the pause
Pause ==
    /\ pc = "loop"
    /\ page + 1 < n_pages
    /\ page' = page + 1
    /\ log' = Append(log, SleepEvent(SEARCH_PAUSE_SECONDS))
    /\ pc' = "fetch"
    /\ UNCHANGED <<decision, arg, ret>>
    /\ UNCHANGED <<query, params, raised, r, n_results, results, n_pages, n>>

\* lines 124-132, up to the next yield or the end of the page
FetchNextPage ==
    /\ pc = "fetch"
    /\ LET ps == [params.v EXCEPT ![1] = <<"page", PyStr(str(page))>>]
       IN  /\ params' = PyList(ps)
           /\ \E resp \in Responses(page) :
                LET o == NextPage(resp, n)
                IN  /\ r' = resp
                    /\ log' = Append(log, GetEvent(ps[1][2].v, resp, o))
                    /\ n' = o.n
                    /\ results' = o.results
                    /\ raised' = o.exc
                    /\ pc' = IF o.exc # NoExc THEN "raised"
                             ELSE AfterPage(o.results, page)
    /\ UNCHANGED <<decision, arg, ret>>
    /\ UNCHANGED <<query, n_results, n_pages, page>>

\* line 122: range(1, n_pages) is exhausted and the generator ends
Finish ==
    /\ pc = "loop"
    /\ ~(page + 1 < n_pages)
    /\ pc' = "done"
    /\ UNCHANGED <<decision, arg, ret>>
    /\ UNCHANGED <<query, params, raised, r, n_results, results, n_pages,
                   page, n, log>>

\* a Search constructed for one of the requests, results() not yet started
Init ==
    /\ query \in {SearchInit(kw) : kw \in PagerRequests}
    /\ params = PyNone
    /\ pc = "start"
    /\ raised = NoExc
    /\ r = NoResponse
    /\ n_results = Unbound
    /\ results = <<>>
    /\ n_pages = Unbound
    /\ page = 0
    /\ n = Unbound
    /\ log = <<>>
    /\ decision = PyNone
    /\ arg = PyNone
    /\ ret = PyNone

Next ==
    \/ FetchFirstPage
    \/ YieldResult
    \/ ComputePages
    \/ Pause
    \/ FetchNextPage
    \/ Finish

Spec == Init /\ [][Next]_vars

----------------------------------------------------------------------------
(* Search.build_query on its own *)

\* Search.build_query(), called on a newly constructed Search
BuildQuery ==
    /\ pc = "new"
    /\ LET b == build_query(query)
       IN  /\ params' = PyList(b.val)
           /\ raised' = b.exc
           /\ pc' = IF b.exc # NoExc THEN "raised" ELSE "built"
    /\ UNCHANGED <<decision, arg, ret>>
    /\ UNCHANGED <<query, r, n_results, results, n_pages, page, n, log>>

InitQuery ==
    /\ query \in {SearchInit(kw) : kw \in Requests}
    /\ params = PyNone
    /\ pc = "new"
    /\ raised = NoExc
    /\ r = NoResponse
    /\ n_results = Unbound
    /\ results = <<>>
    /\ n_pages = Unbound
    /\ page = 0
    /\ n = Unbound
    /\ log = <<>>
    /\ decision = PyNone
    /\ arg = PyNone
    /\ ret = PyNone

NextQuery == BuildQuery

SpecQuery == InitQuery /\ [][NextQuery]_vars

----------------------------------------------------------------------------
(* Search.scrape_results on its own *)

\* n_results, results = Search().scrape_results(html), html the text of r
ScrapePage ==
    /\ pc = "page"
    /\ LET s == scrape_results(r.text)
       IN  /\ raised' = s.exc
           /\ pc' = IF s.exc # NoExc THEN "raised" ELSE "scraped"
           /\ n_results' = IF s.exc # NoExc THEN n_results ELSE s.val[1]
           /\ results' = IF s.exc # NoExc THEN results ELSE s.val[2]
    /\ UNCHANGED <<decision, arg, ret>>
    /\ UNCHANGED <<query, params, r, n_pages, page, n, log>>

InitScrape ==
    /\ query = SearchInit(<<>>)
    /\ params = PyNone
    /\ pc = "page"
    /\ raised = NoExc
    /\ r \in {[status_code |-> 200, text |-> pg] : pg \in Pages(0)}
    /\ n_results = Unbound
    /\ results = <<>>
    /\ n_pages = Unbound
    /\ page = 0
    /\ n = Unbound
    /\ log = <<>>
    /\ decision = PyNone
    /\ arg = PyNone
    /\ ret = PyNone

NextScrape == ScrapePage

SpecScrape == InitScrape /\ [][NextScrape]_vars

----------------------------------------------------------------------------
(* index_to_court on its own, and through Search.build_query *)

\* the category names the directory is asked for: its two keys and others
CourtTypes == DOMAIN COURTS \cup {"court", "tribunal", "Courts"}

\* the calls index_to_court(court_type, court_idx) that are made
DirectoryCalls ==
    {[court_type |-> ct, court_idx |-> i] :
        ct \in CourtTypes, i \in (0 - MaxOut)..(Len(COURTS["tribunals"]) + MaxOut)}

\* ret = index_to_court(arg.court_type, arg.court_idx)
IndexToCourt ==
    /\ pc = "lookup"
    /\ LET c == index_to_court(arg.court_type, arg.court_idx)
       IN  /\ raised' = c.exc
           /\ ret' = c.val
           /\ pc' = IF c.exc # NoExc THEN "raised" ELSE "returned"
    /\ UNCHANGED <<decision, arg>>
    /\ UNCHANGED <<query, params, r, n_results, results, n_pages, page, n, log>>

InitLookup ==
    /\ arg \in DirectoryCalls
    /\ pc = "lookup"
    /\ query = PyNone
    /\ params = PyNone
    /\ raised = NoExc
    /\ r = NoResponse
    /\ n_results = Unbound
    /\ results = <<>>
    /\ n_pages = Unbound
    /\ page = 0
    /\ n = Unbound
    /\ log = <<>>
    /\ decision = PyNone
    /\ ret = PyNone

InitDirectory == InitLookup \/ InitQuery

NextDirectory == IndexToCourt \/ BuildQuery

SpecDirectory == InitDirectory /\ [][NextDirectory]_vars

----------------------------------------------------------------------------
(* Python str operations used by decision.py; a str is a string here.      *)
(* Once({e(v) : v \in {x}}) is e(x) with x evaluated a single time.         *)

Once(S) == CHOOSE x \in S : TRUE

\* s[i] for a 0-based index inside the string
CharAt(s, i) == SubSeq(s, i + 1, i + 1)

\* the character that stands for the em-dash U+2014
EM_DASH == "~"

WHITESPACE == {" ", "\n", "\t"}

\* s[:k] for a str or a list
Slice(s, k) == Once({SubSeq(v, 1, Min(Len(v), k)) : v \in {s}})

\* substring in s
Contains(substring, s) ==
    \E i \in 0..(Len(s) - Len(substring)) :
        SubSeq(s, i + 1, i + Len(substring)) = substring

\* the 1-based positions of s whose character is in chars, in order
Positions(s, chars) ==
    SelectSeq([i \in 1..Len(s) |-> i], LAMBDA i : SubSeq(s, i, i) \in chars)

\* the pieces of s between the positions pos, a separator at each
Pieces(s, pos) ==
    [j \in 1..(Len(pos) + 1) |->
        SubSeq(s, IF j = 1 THEN 1 ELSE pos[j - 1] + 1,
                  IF j > Len(pos) THEN Len(s) ELSE pos[j] - 1)]

\* the pieces of s between the characters of seps: s.split(sep) for a
\* one-character sep, re.split("[...]", s) for a character class
SplitOn(seps, s) ==
    Once({Once({Pieces(v, pos) : pos \in {Positions(v, seps)}}) : v \in {s}})

\* s.split(sep)
split(s, sep) == SplitOn({sep}, s)

\* s without the whitespace before its first and after its last character
\* that is none
Stripped(s, inner) ==
    IF inner = <<>> THEN "" ELSE SubSeq(s, inner[1], inner[Len(inner)])

\* s.strip()
strip(s) ==
    Once({Once({Stripped(v, inner) :
                  inner \in {SelectSeq([i \in 1..Len(v) |-> i],
                               LAMBDA i : SubSeq(v, i, i) \notin WHITESPACE)}}) :
            v \in {s}})

\* sep.join(strings)
RECURSIVE JoinWith(_, _)
JoinWith(sep, strings) ==
    Once({IF v = <<>> THEN ""
          ELSE IF Len(v) = 1 THEN v[1]
          ELSE v[1] \o sep \o JoinWith(sep, Tail(v)) : v \in {strings}})

\* the concatenation of the sequences of a sequence
RECURSIVE Flatten(_)
Flatten(seqs) ==
    Once({IF v = <<>> THEN <<>> ELSE v[1] \o Flatten(Tail(v)) : v \in {seqs}})

\* s.replace(old, new) for a one-character old
replace(s, old, new) == JoinWith(new, split(s, old))

\* stars.match(s) for stars = re.compile(r"\*+"): a match at the start of s
StarsMatch(s) == Slice(s, 1) = "*"

\* int(s) for the text of an attribute: ValueError unless decimal digits
IntOf(s) ==
    IF s = "" \/ \E i \in 0..(Len(s) - 1) :
                    \A d \in 0..9 : DigitChar(d) # CharAt(s, i)
    THEN Raise("ValueError", "invalid literal for int()")
    ELSE Ok(int([i \in 1..Len(s) |->
                    CHOOSE d \in 0..9 : DigitChar(d) = CharAt(s, i - 1)]))

----------------------------------------------------------------------------
(* decision.py: the scrapers.  A tag is given by what the parser returns   *)
(* for it: strings is its stripped_strings, and a page is the record of    *)
(* the tags the scrapers look for: title, links, dts, body and trs.        *)

FETCH_PAUSE_SECONDS == 5

BASE_FIELDS == <<"title", "uri", "before", "decisionDate", "catchwords">>

PyFalse == [t |-> "bool", v |-> FALSE]
PyDict(d) == [t |-> "dict", v |-> d]

\* Decision.values: the _values dict of a Decision
Values(d) == Once({[k \in DOMAIN v \ {"t"} |-> v[k]] : v \in {d}})

\* Scraper._strings(elt)
Scraper_strings(elt) == JoinWith("\n", elt.strings)

\* Scraper._fix_whitespace(values)
Scraper_fix_whitespace(values) ==
    Once({[i \in DOMAIN v |-> replace(v[i], "\n", " ")] : v \in {values}})

\* the dict that "raw[key] = value" builds from the (key, value) items in
\* turn, kept as the sequence of its items: a key stays where it was first
\* inserted and holds the value last stored for it
DictOf(items) ==
    Once({[k \in DOMAIN firsts |->
              <<items[firsts[k]][1],
                items[CHOOSE j \in DOMAIN items :
                        /\ items[j][1] = items[firsts[k]][1]
                        /\ \A l \in DOMAIN items :
                              items[l][1] = items[j][1] => l <= j][2]>>] :
            firsts \in {SelectSeq([i \in DOMAIN items |-> i],
                          LAMBDA i : \A j \in 1..(i - 1) :
                                        items[j][1] # items[i][1])}})

\* Scraper._find_value(substring): "substring in f" raises TypeError on a
\* key that is None
Scraper_find_value(raw, substring) ==
    IF \E i \in DOMAIN raw : raw[i][1] = PyNone
    THEN Raise("TypeError", "argument of type 'NoneType' is not iterable")
    ELSE Once({IF matches = <<>> THEN Ok(PyStr("")) ELSE Ok(matches[1][2]) :
                 matches \in {SelectSeq(raw,
                                LAMBDA kv : Contains(substring, kv[1].v))}})

\* for field, substring in SUBSTRINGS.items():
\*     self._values[field] = self._find_value(substring)
FindValues(raw, substrings) ==
    Once({IF \E f \in DOMAIN found : found[f].exc # NoExc
          THEN Raise("TypeError",
                     "argument of type 'NoneType' is not iterable")
          ELSE Ok([f \in DOMAIN found |-> found[f].val]) :
            found \in {[f \in DOMAIN substrings |->
                          Scraper_find_value(raw, substrings[f])]}})

\* Scraper._scrape_title()
Scraper_scrape_title(soup) ==
    IF soup.title # PyNone
    THEN PyStr(strip(split(JoinWith(" ", soup.title.strings), "-")[1]))
    ELSE PyNone

\* Scraper._scrape_uri()
Scraper_scrape_uri(d, soup) ==
    IF d.uri # PyNone /\ d.uri.v # "" THEN d.uri
    ELSE Once({IF dl_links # <<>>
               THEN PyStr(JoinWith("/", Slice(split(dl_links[1], "/"), 3)))
               ELSE PyNone :
                 dl_links \in {SelectSeq(soup.links,
                                 LAMBDA href : Slice(href, 9) = "/decision")}})

NEW_SUBSTRINGS ==
    [mnc |-> "Medium Neutral Citation",
     hearingDates |-> "Hearing dates",
     dateOfOrders |-> "Date of orders",
     decisionDate |-> "Decision date",
     jurisdiction |-> "Jurisdiction",
     before |-> "Before",
     decision |-> "Decision:",
     catchwords |-> "Catchwords",
     legislationCited |-> "Legislation Cited",
     casesCited |-> "Cases Cited",
     parties |-> "Parties",
     category |-> "Category",
     fileNumber |-> "File Number",
     representation |-> "Representation"]

\* the value the first loop of NewScScraper._scrape_metadata stores for a
\* dd: the list of its paragraphs, or its text when it has none
DdValue(dd) ==
    IF dd.paras # <<>>
    THEN PyList([i \in DOMAIN dd.paras |-> Scraper_strings(dd.paras[i])])
    ELSE PyStr(Scraper_strings(dd))

\* the first loop of NewScScraper._scrape_metadata: _raw from the dt tags,
\* AttributeError at the first dt that has no dd
NewRaw(dts) ==
    IF \E i \in DOMAIN dts : dts[i].dd = PyNone
    THEN Raise("AttributeError",
               "'NoneType' object has no attribute 'find_all'")
    ELSE Ok(DictOf([i \in DOMAIN dts |->
                       <<dts[i].string, DdValue(dts[i].dd)>>]))

\* NewScScraper._ensure_list(value)
NewScScraper_ensure_list(value) ==
    IF value.t = "list" THEN value ELSE PyList(split(value.v, "\n"))

\* NewScScraper._catchwords(catchwords)
NewScScraper_catchwords(catchwords) ==
    IF catchwords = PyNone \/ catchwords.v = <<>> THEN PyList(<<>>)
    ELSE Once({PyList([i \in DOMAIN cws |-> strip(cws[i])]) :
                 cws \in {SplitOn({EM_DASH, "-"}, catchwords.v[1])}})

\* NewScScraper._ignored_paras(p)
NewScScraper_ignored_paras(p) ==
    IF p.class # PyNone
          /\ ("disclaimer" \in Range(p.class.v)
                \/ "lastupdate" \in Range(p.class.v))
    THEN TRUE
    ELSE StarsMatch(Scraper_strings(p))

\* the ol branch of NewScScraper._scrape_judgment: one paragraph for each li
\* of the list, numbered from num on
OlParagraphs(lis, num) ==
    [i \in DOMAIN lis |-> str(num + i - 1) \o " " \o Scraper_strings(lis[i])]

\* what one child of the body adds to the paragraphs of
\* NewScScraper._scrape_judgment, or the exception it raises
JudgmentChild(child) ==
    CASE child.name = "h2" -> Ok(<<"##" \o Scraper_strings(child)>>)
      [] child.name = "ol" ->
            IF child.start = PyNone THEN Raise("KeyError", "start")
            ELSE Once({IF num.exc # NoExc THEN num
                       ELSE Ok(OlParagraphs(child.lis, num.val)) :
                         num \in {IntOf(child.start.v)}})
      [] child.name = "p" ->
            IF ~NewScScraper_ignored_paras(child)
            THEN Once({IF text # "" THEN Ok(<<text>>) ELSE Ok(<<>>) :
                         text \in {Scraper_strings(child)}})
            ELSE Ok(<<>>)
      [] OTHER -> Ok(<<>>)

\* the loop of NewScScraper._scrape_judgment over body.children
RECURSIVE JudgmentParagraphs(_, _)
JudgmentParagraphs(children, paragraphs) ==
    IF children = <<>> THEN Ok(paragraphs)
    ELSE Once({IF added.exc # NoExc THEN added
               ELSE Once({JudgmentParagraphs(rest, next) :
                            rest \in {Tail(children)},
                            next \in {paragraphs \o added.val}}) :
                 added \in {JudgmentChild(children[1])}})

\* NewScScraper._scrape_judgment()
NewScScraper_scrape_judgment(soup) ==
    IF soup.body = PyNone THEN Ok(PyList(<<>>))
    ELSE Once({IF ps.exc # NoExc THEN ps ELSE Ok(PyList(ps.val)) :
                 ps \in {JudgmentParagraphs(soup.body.children, <<>>)}})

\* value[0] of a str or a list
Item0(value) ==
    IF Len(value.v) = 0 THEN Raise("IndexError", "index out of range")
    ELSE IF value.t = "list" THEN Ok(PyStr(value.v[1]))
    ELSE Ok(PyStr(CharAt(value.v, 0)))

\* value.split("\n"): a list has no split
SplitLines(value) ==
    IF value.t = "list"
    THEN Raise("AttributeError", "'list' object has no attribute 'split'")
    ELSE Ok(PyList(split(value.v, "\n")))

\* the values NewScScraper._scrape_metadata returns when nothing raises
NewValues(v, decision0, parties, representation, judgment) ==
    [v EXCEPT
        !.decision = decision0,
        !.catchwords =
            NewScScraper_catchwords(NewScScraper_ensure_list(v.catchwords)),
        !.legislationCited =
            PyList(Scraper_fix_whitespace(
                       NewScScraper_ensure_list(v.legislationCited).v)),
        !.casesCited =
            PyList(Scraper_fix_whitespace(
                       NewScScraper_ensure_list(v.casesCited).v)),
        !.parties = parties,
        !.representation = representation]
    @@ [judgment |-> judgment]

\* the statements of NewScScraper._scrape_metadata after the loops, on the
\* values v found: the first that raises ends the method
NewPostProcess(v, soup) ==
    Once({IF decision0.exc # NoExc THEN decision0
          ELSE Once({IF parties.exc # NoExc THEN parties
          ELSE Once({IF representation.exc # NoExc THEN representation
          ELSE Once({IF judgment.exc # NoExc THEN judgment
          ELSE Ok(NewValues(v, decision0.val, parties.val,
                            representation.val, judgment.val)) :
            judgment \in {NewScScraper_scrape_judgment(soup)}}) :
            representation \in {SplitLines(v.representation)}}) :
            parties \in {SplitLines(v.parties)}}) :
            decision0 \in {Item0(v.decision)}})

\* NewScScraper._scrape_metadata()
NewScScraper_scrape_metadata(soup) ==
    Once({IF raw.exc # NoExc THEN raw
          ELSE Once({IF found.exc # NoExc THEN found
                     ELSE NewPostProcess(found.val, soup) :
                       found \in {FindValues(raw.val, NEW_SUBSTRINGS)}}) :
            raw \in {NewRaw(soup.dts)}})

OLD_SUBSTRINGS ==
    [mnc |-> "CITATION",
     hearingDates |-> "HEARING DATE",
     dateOfOrders |-> "DATE OF ORDERS",
     decisionDate |-> "JUDGMENT DATE",
     jurisdiction |-> "JURISDICTION",
     before |-> "JUDGMENT OF",
     decision |-> "DECISION",
     catchwords |-> "CATCHWORDS",
     legislationCited |-> "LEGISLATION CITED",
     casesCited |-> "CASES CITED",
     parties |-> "PARTIES",
     category |-> "CATEGORY",
     fileNumber |-> "FILE NUMBER",
     counsel |-> "COUNSEL",
     solicitors |-> "SOLICITORS"]

\* the first loop of OldScScraper._scrape_metadata: _raw from the rows of
\* three cells or more
OldRaw(rows) ==
    Once({DictOf([i \in DOMAIN wide |->
                     <<PyStr(Scraper_strings(wide[i][2])),
                       PyStr(Scraper_strings(wide[i][3]))>>]) :
            wide \in {SelectSeq(rows, LAMBDA cells : Len(cells) >= 3)}})

\* OldScScraper._catchwords(catchwords)
OldScScraper_catchwords(catchwords) ==
    IF catchwords = PyNone THEN PyList(<<>>)
    ELSE Once({PyList([i \in DOMAIN cws |-> strip(cws[i])]) :
                 cws \in {split(catchwords.v, "-")}})

\* paragraphs[-1].append(text)
AppendToLast(paragraphs, text) ==
    [paragraphs EXCEPT ![Len(paragraphs)] = Append(@, text)]

\* what one child of a cell adds to the paragraphs of
\* OldScScraper._scrape_judgment
OldChild(paragraphs, child) ==
    IF child.name = "ul"
    THEN Once({Append(IF ul_content # "" /\ paragraphs # <<>>
                      THEN AppendToLast(paragraphs, ul_content)
                      ELSE paragraphs,
                      <<>>) :
                 ul_content \in {strip(Scraper_strings(child))}})
    ELSE IF paragraphs # <<>> /\ strip(child.text) # ""
         THEN AppendToLast(paragraphs, child.text)
         ELSE paragraphs

\* for child in td.children
RECURSIVE OldChildren(_, _)
OldChildren(children, paragraphs) ==
    IF children = <<>> THEN paragraphs
    ELSE Once({OldChildren(rest, next) :
                 rest \in {Tail(children)},
                 next \in {OldChild(paragraphs, children[1])}})

\* the cells OldScScraper._scrape_judgment walks: those of all rows, in
\* document order, with a ul in them
WalkedCells(rows) ==
    SelectSeq(Flatten(rows),
              LAMBDA td : \E i \in DOMAIN td.children :
                             td.children[i].name = "ul")

\* the loops of OldScScraper._scrape_judgment over the cells walked
RECURSIVE OldCells(_, _)
OldCells(cells, paragraphs) ==
    IF cells = <<>> THEN paragraphs
    ELSE Once({OldCells(rest, next) :
                 rest \in {Tail(cells)},
                 next \in {OldChildren(cells[1].children, paragraphs)}})

\* OldScScraper._scrape_judgment()
OldScScraper_scrape_judgment(soup) ==
    Once({PyList(SelectSeq([i \in DOMAIN paragraphs |->
                               JoinWith(" ", paragraphs[i])],
                           LAMBDA para : strip(para) # "")) :
            paragraphs \in {OldCells(WalkedCells(soup.trs), <<>>)}})

\* self._values[f].split("\n") of OldScScraper._scrape_metadata
OldSplit(value) == PyList(split(value.v, "\n"))

\* the statements of OldScScraper._scrape_metadata on counsel, solicitors
\* and representation: the value of representation and the keys popped
Representation(counsel, solicitors) ==
    [value |->
        PyList((IF counsel # PyNone THEN counsel.v ELSE <<>>)
               \o (IF solicitors # PyNone THEN solicitors.v ELSE <<>>)),
     popped |->
        (IF counsel # PyNone THEN {"counsel"} ELSE {})
        \cup (IF solicitors # PyNone THEN {"solicitors"} ELSE {})]

\* the statements of OldScScraper._scrape_metadata after the loops, on the
\* values v found
OldPostProcess(v, soup) ==
    Once({[f \in DOMAIN v \ rep.popped |->
              CASE f = "catchwords" -> OldScScraper_catchwords(v[f])
                [] f \in {"legislationCited", "casesCited", "parties",
                          "counsel", "solicitors"} -> OldSplit(v[f])
                [] OTHER -> v[f]]
          @@ [representation |-> rep.value,
              judgment |-> OldScScraper_scrape_judgment(soup)] :
            rep \in {Representation(OldSplit(v.counsel),
                                    OldSplit(v.solicitors))}})

\* OldScScraper._scrape_metadata()
OldScScraper_scrape_metadata(soup) ==
    IF soup.trs = <<>> THEN Ok(<<>>)
    ELSE Once({Ok(OldPostProcess(found.val, soup)) :
                 found \in {FindValues(OldRaw(soup.trs),
                                       OLD_SUBSTRINGS)}})

\* Scraper.scrape() of the scraper Decision._get_scraper() returns: the old
\* layout when the page has no dt, the new layout otherwise
Scraper_scrape(d, soup) ==
    Once({IF data.exc # NoExc THEN data
          ELSE Ok([title |-> Scraper_scrape_title(soup),
                   uri |-> Scraper_scrape_uri(d, soup)] @@ data.val) :
            data \in {IF soup.dts = <<>>
                      THEN OldScScraper_scrape_metadata(soup)
                      ELSE NewScScraper_scrape_metadata(soup)}})

\* the Decision after "for k, v in scraped_values.items():
\* self._values[k] = v", and the _values it returns
Updated(d, scraped_values) ==
    Once({[exc |-> NoExc, val |-> PyDict(Values(self)), self |-> self] :
            self \in {scraped_values @@ d}})

\* Decision.scrape(html) without the try: the exception of the scraper
\* leaves the method
Decision_scrape_NoTry(d, soup) ==
    Once({IF scraped_values.exc # NoExc
          THEN [exc |-> scraped_values.exc, val |-> PyNone, self |-> d]
          ELSE Updated(d, scraped_values.val) :
            scraped_values \in {Scraper_scrape(d, soup)}})

\* Decision.scrape(html) storing the title in the record before the
\* extraction is over: a failed scrape leaves the title of the page
Decision_scrape_TitleFirst(d, soup) ==
    Once({IF scraped_values.exc # NoExc
          THEN [exc |-> NoExc, val |-> PyFalse,
                self |-> [title |-> Scraper_scrape_title(soup)] @@ d]
          ELSE Updated(d, scraped_values.val) :
            scraped_values \in {Scraper_scrape(d, soup)}})

\* Decision.scrape(html): what it returns (val), the exception that leaves
\* it (exc) and the Decision afterwards (self)
Decision_scrape(d, soup) ==
    Once({IF scraped_values.exc # NoExc
          THEN [exc |-> NoExc, val |-> PyFalse, self |-> d]
          ELSE Updated(d, scraped_values.val) :
            scraped_values \in {Scraper_scrape(d, soup)}})

----------------------------------------------------------------------------
(* The inputs of Decision.scrape: decision pages of the two layouts *)

\* a tag with the given stripped_strings and no p in it
Tag(strings) == [strings |-> strings, paras |-> <<>>]

\* a dd whose content is a run of p tags
Paras(paras) ==
    [strings |-> <<>>, paras |-> [i \in DOMAIN paras |-> Tag(paras[i])]]

\* the fields in the order of NewScScraper.SUBSTRINGS
NEW_FIELDS ==
    <<"mnc", "hearingDates", "dateOfOrders", "decisionDate", "jurisdiction",
      "before", "decision", "catchwords", "legislationCited", "casesCited",
      "parties", "category", "fileNumber", "representation">>

\* the fields in the order of OldScScraper.SUBSTRINGS
OLD_FIELDS ==
    <<"mnc", "hearingDates", "dateOfOrders", "decisionDate", "jurisdiction",
      "before", "decision", "catchwords", "legislationCited", "casesCited",
      "parties", "category", "fileNumber", "counsel", "solicitors">>

\* the label a page of the new layout shows for a field
NewLabel(f) ==
    IF f = "decision" THEN NEW_SUBSTRINGS[f] ELSE NEW_SUBSTRINGS[f] \o ":"

\* the label a page of the old layout shows for a field
OldLabel(f) == OLD_SUBSTRINGS[f] \o " :"

\* the content of each field on the complete page: its lines, and whether
\* the new layout wraps it in p tags (one per line)
Content ==
    [mnc |-> <<"[2020] NSWSC 1">>,
     hearingDates |-> <<"1 May 2020">>,
     dateOfOrders |-> <<"2 May 2020">>,
     decisionDate |-> <<"3 May 2020">>,
     jurisdiction |-> <<"Equity">>,
     before |-> <<"Smith J">>,
     decision |-> <<"Appeal allowed", "Costs reserved">>,
     catchwords |-> <<"CRIME - appeal ~ costs">>,
     legislationCited |-> <<"Crimes Act 1900", "Evidence Act 1995">>,
     casesCited |-> <<"R v A", "R v B">>,
     parties |-> <<"A (Plaintiff)", "B (Defendant)">>,
     category |-> <<"Principal judgment">>,
     fileNumber |-> <<"2020/1">>,
     representation |-> <<"C (Plaintiff)", "S (Defendant)">>,
     counsel |-> <<"C (Plaintiff)", "D (Defendant)">>,
     solicitors |-> <<"S (Plaintiff)">>]

InParas == {"decision", "catchwords", "legislationCited"}

\* the dd of a field: its lines in one tag, or one p for each line
DdOf(f, inparas) ==
    IF inparas THEN Paras([i \in DOMAIN Content[f] |-> <<Content[f][i]>>])
    ELSE Tag(Content[f])

\* the dt tags of a field on a page of the new layout: as on the complete
\* page, or departing from it in that the entry is absent, comes twice, has
\* the other form of dd, has an empty dd, has a dt of several strings
\* (dt.string is None) or has no dd after the dt
NewDts(f, kind) ==
    LET dt == [string |-> PyStr(NewLabel(f)), dd |-> DdOf(f, f \in InParas)]
    IN  CASE kind = "complete" -> <<dt>>
          [] kind = "absent" -> <<>>
          [] kind = "twice" ->
                <<dt, [string |-> PyStr(NewLabel(f) \o " (2)"),
                       dd |-> Tag(<<"second">>)]>>
          [] kind = "flipped" -> <<[dt EXCEPT !.dd = DdOf(f, f \notin InParas)]>>
          [] kind = "empty" -> <<[dt EXCEPT !.dd = Tag(<<>>)]>>
          [] kind = "nostring" -> <<[dt EXCEPT !.string = PyNone]>>
          [] kind = "nodd" -> <<[dt EXCEPT !.dd = PyNone]>>

\* a cell of a table: its stripped_strings and its children
Cell(strings, children) == [strings |-> strings, children |-> children]

\* the rows of a field on a page of the old layout: as on the complete
\* page, or departing from it in that the row is absent, comes twice, has
\* an empty third cell or has two cells only
OldTrs(f, kind) ==
    LET label == Cell(<<OldLabel(f)>>, <<>>)
        tr == <<Cell(<<>>, <<>>), label, Cell(Content[f], <<>>)>>
    IN  CASE kind = "complete" -> <<tr>>
          [] kind = "absent" -> <<>>
          [] kind = "twice" ->
                <<tr, <<Cell(<<>>, <<>>),
                        Cell(<<OldLabel(f) \o " (2)">>, <<>>),
                        Cell(<<"second">>, <<>>)>> >>
          [] kind = "empty" -> <<[tr EXCEPT ![3] = Cell(<<>>, <<>>)]>>
          [] kind = "short" -> <<SubSeq(tr, 2, 3)>>

\* the choices of at most MaxVaried labels and of how each departs
Departures(fields, kinds) ==
    UNION {[S -> kinds] :
             S \in {T \in SUBSET Range(fields) : Cardinality(T) <= MaxVaried}}

KindOf(dep, f) == IF f \in DOMAIN dep THEN dep[f] ELSE "complete"

\* a child of the body of a page of the new layout
Child(name, class, start, strings, lis) ==
    [name |-> name, class |-> class, start |-> start, strings |-> strings,
     lis |-> [i \in DOMAIN lis |-> Tag(lis[i])]]

P(class, strings) == Child("p", class, PyNone, strings, <<>>)

Ol(start, lis) == Child("ol", PyNone, start, Flatten(lis), lis)

\* the children a body is made of: a heading, lists with a start, without
\* one and with one that is no number, paragraphs plain, of two lines, of a
\* class, of asterisks, beginning with an asterisk and empty, and a string
BodyChildren ==
    {Child("h2", PyNone, PyNone, <<"Judgment">>, <<>>),
     Ol(PyStr("9"), <<<<"First">>, <<"Second", "part">>>>),
     Ol(PyNone, <<<<"First">>>>),
     Ol(PyStr("i"), <<<<"First">>>>),
     P(PyNone, <<"The appeal">>),
     P(PyNone, <<"I agree", "with A J">>),
     P(PyList(<<"disclaimer">>), <<"DISCLAIMER">>),
     P(PyList(<<"small", "lastupdate">>), <<"Last updated">>),
     P(PyList(<<"quote">>), <<"Quoted">>),
     P(PyNone, <<"***">>),
     P(PyNone, <<"*Name changed">>),
     P(PyNone, <<>>),
     Child("", PyNone, PyNone, <<"loose text">>, <<>>)}

\* the body of the complete page
CompleteBody ==
    [children |->
        <<Child("h2", PyNone, PyNone, <<"Judgment">>, <<>>),
          Ol(PyStr("1"), <<<<"First">>, <<"Second">>>>),
          P(PyNone, <<"Orders accordingly">>)>>]

\* a child of a cell of the old layout: its name, stripped_strings and text
OldKid(name, strings, text) ==
    [name |-> name, strings |-> strings, text |-> text]

\* the children a judgment cell is made of: list items with and without
\* text, an indented list with its passage, text and blank text
OldKids ==
    {OldKid("ul", <<"1 The appeal">>, " 1 The appeal "),
     OldKid("ul", <<>>, " "),
     OldKid("ul", <<"quoted", "passage">>, " quoted\n passage "),
     OldKid("", <<"continues">>, " continues "),
     OldKid("", <<>>, "\n")}

\* the judgment cell of the complete page
CompleteKids ==
    <<OldKid("", <<"JUDGMENT">>, "JUDGMENT"),
      OldKid("ul", <<"1 The appeal">>, "1 The appeal"),
      OldKid("", <<"is allowed">>, " is allowed"),
      OldKid("ul", <<>>, ""),
      OldKid("ul", <<"2 Costs">>, "2 Costs")>>

Titles == {PyNone, Tag(<<"R v A - NSW Caselaw">>), Tag(<<"R v A">>),
           Tag(<<"R v A [2020]", "NSWSC 1">>)}

Links ==
    {<<>>, <<"", "/about">>, <<"/about", "/decision/54a6/export">>,
     <<"/decision/54a6", "/decision/54b7">>, <<"/decisions">>}

\* a page: the tags the scrapers look for
Soup(title, links, dts, body, trs) ==
    [title |-> title, links |-> links, dts |-> dts, body |-> body,
     trs |-> trs]

NewDtsOf(dep) ==
    Flatten([i \in DOMAIN NEW_FIELDS |->
                NewDts(NEW_FIELDS[i], KindOf(dep, NEW_FIELDS[i]))])

OldTrsOf(dep, kids) ==
    Flatten([i \in DOMAIN OLD_FIELDS |->
                OldTrs(OLD_FIELDS[i], KindOf(dep, OLD_FIELDS[i]))])
    \o << <<Cell(Flatten([i \in DOMAIN kids |-> kids[i].strings]), kids)>> >>

\* a page with neither dt nor tr
BlankPage ==
    Soup(Tag(<<"R v A - NSW Caselaw">>), <<"/about", "/decision/54a6/export">>,
         <<>>, PyNone, <<>>)

CompleteNewPage ==
    [BlankPage EXCEPT !.dts = NewDtsOf(<<>>), !.body = CompleteBody]

CompleteOldPage == [BlankPage EXCEPT !.trs = OldTrsOf(<<>>, CompleteKids)]

\* the pages of the new layout: the complete page with at most MaxVaried
\* labels departing, or with a body of up to MaxKids children, without a
\* body, or with another title or links
NewPages ==
    {[CompleteNewPage EXCEPT !.dts = NewDtsOf(dep)] :
        dep \in Departures(NEW_FIELDS,
                           {"absent", "twice", "flipped", "empty",
                            "nostring", "nodd"})}
    \cup {[CompleteNewPage EXCEPT !.body = [children |-> c]] :
            c \in SeqsUpTo(BodyChildren, MaxKids)}
    \cup {[CompleteNewPage EXCEPT !.body = PyNone]}
    \cup {[CompleteNewPage EXCEPT !.title = t] : t \in Titles}
    \cup {[CompleteNewPage EXCEPT !.links = l] : l \in Links}

\* the pages of the old layout, likewise, the judgment cell having up to
\* MaxKids children, and the page without any row
OldPages ==
    {[CompleteOldPage EXCEPT !.trs = OldTrsOf(dep, CompleteKids)] :
        dep \in Departures(OLD_FIELDS,
                           {"absent", "twice", "empty", "short"})}
    \cup {[CompleteOldPage EXCEPT !.trs = OldTrsOf(<<>>, kids)] :
            kids \in SeqsUpTo(OldKids, MaxKids)}
    \cup {[CompleteOldPage EXCEPT !.title = t] : t \in Titles}
    \cup {[CompleteOldPage EXCEPT !.links = l] : l \in Links}
    \cup {BlankPage}

DecisionPages == NewPages \cup OldPages

\* the Decision objects scraped: Decision() as the tests make it, and one
\* made by the search from a row of a results page
Decisions ==
    {Decision(<<>>),
     Decision([title |-> PyStr("R v A"), uri |-> PyStr("/decision/17a2"),
               before |-> PyStr("Smith J"),
               decisionDate |-> PyStr("3 May 2020"),
               catchwords |-> PyStr("CRIME - appeal")])}

\* what requests.get may return for a decision: a page with status 200, or
\* an error status
DecisionResponses ==
    {[status_code |-> 200, text |-> pg] :
        pg \in {CompleteNewPage, CompleteOldPage, BlankPage,
                [CompleteNewPage EXCEPT
                    !.dts = NewDtsOf([decision |-> "absent"])]}}
    \cup {[status_code |-> sc, text |-> BlankPage] : sc \in ErrorStatuses}

----------------------------------------------------------------------------
(* decision.py: Decision.scrape and Decision.fetch *)

\* the request of fetch, for CASELAW_BASE_URL + self.uri
FetchEvent(uri, resp) ==
    [ev |-> "get", uri |-> uri, status |-> resp.status_code]

\* result = decision.scrape(html)
Scrape ==
    /\ pc = "made"
    /\ \E html \in DecisionPages :
          \E s \in {Decision_scrape(decision, html)} :
              /\ arg' = html
              /\ decision' = s.self
              /\ ret' = s.val
              /\ raised' = s.exc
              /\ pc' = IF s.exc # NoExc THEN "raised" ELSE "scraped"
    /\ UNCHANGED <<query, params, r, n_results, results, n_pages, page, n, log>>

\* decision.fetch() up to its return or its pause: the request, and on
\* status 200 the scrape of the text and the return of its result
Fetch ==
    /\ pc = "made"
    /\ IF decision.uri = PyNone
       THEN /\ raised' = Exc("TypeError", "can only concatenate str to str")
            /\ pc' = "raised"
            /\ UNCHANGED <<r, log, arg, decision, ret>>
       ELSE \E resp \in DecisionResponses :
              /\ r' = resp
              /\ log' = Append(log, FetchEvent(decision.uri.v, resp))
              /\ IF resp.status_code = 200
                 THEN \E s \in {Decision_scrape(decision, resp.text)} :
                          /\ arg' = resp.text
                          /\ decision' = s.self
                          /\ ret' = s.val
                          /\ raised' = s.exc
                          /\ pc' = IF s.exc # NoExc THEN "raised"
                                   ELSE "fetched"
                 ELSE /\ pc' = "pausing"
                      /\ UNCHANGED <<arg, decision, ret, raised>>
    /\ UNCHANGED <<query, params, n_results, results, n_pages, page, n>>

\* time.sleep(FETCH_PAUSE_SECONDS) of fetch, and its return of None
FetchPause ==
    /\ pc = "pausing"
    /\ log' = Append(log, SleepEvent(FETCH_PAUSE_SECONDS))
    /\ ret' = PyNone
    /\ pc' = "fetched"
    /\ UNCHANGED <<decision, arg, raised>>
    /\ UNCHANGED <<query, params, r, n_results, results, n_pages, page, n>>

InitDecision ==
    /\ decision \in Decisions
    /\ pc = "made"
    /\ arg = PyNone
    /\ ret = PyNone
    /\ query = PyNone
    /\ params = PyNone
    /\ raised = NoExc
    /\ r = NoResponse
    /\ n_results = Unbound
    /\ results = <<>>
    /\ n_pages = Unbound
    /\ page = 0
    /\ n = Unbound
    /\ log = <<>>

NextDecision == Scrape \/ Fetch \/ FetchPause

SpecDecision == InitDecision /\ [][NextDecision]_vars

----------------------------------------------------------------------------
(* decision.py: Decision.scrape called again and again on one Decision *)

\* the pages scraped in turn: the complete pages of the two layouts, the
\* page without rows, pages with another title, no title, other links and
\* no body, and pages on which the scraper raises at its first loop (no dd), at _find_value
\* (dt.string is None), at the decision (no "Decision:"), at the parties
\* (a list of paragraphs) and in the judgment (a start that is no number)
RepeatPages ==
    {CompleteNewPage, CompleteOldPage, BlankPage,
     [CompleteNewPage EXCEPT !.title = Tag(<<"R v A [2020]", "NSWSC 1">>)],
     [CompleteOldPage EXCEPT !.links = <<"/decisions">>],
     [CompleteOldPage EXCEPT !.title = PyNone],
     [CompleteNewPage EXCEPT !.body = PyNone],
     [CompleteOldPage EXCEPT
         !.trs = OldTrsOf([counsel |-> "absent"], CompleteKids)],
     [CompleteNewPage EXCEPT !.dts = NewDtsOf([mnc |-> "nodd"])],
     [CompleteNewPage EXCEPT !.dts = NewDtsOf([before |-> "nostring"])],
     [CompleteNewPage EXCEPT !.dts = NewDtsOf([decision |-> "absent"])],
     [CompleteNewPage EXCEPT !.dts = NewDtsOf([parties |-> "flipped"])],
     [CompleteNewPage EXCEPT
         !.body = [children |-> <<P(PyNone, <<"The appeal">>),
                                  Ol(PyStr("i"), <<<<"First">>>>)>>]]}

\* result = decision.scrape(html), on a new Decision or on one scraped
\* before
ScrapeAgain ==
    /\ pc \in {"made", "scraped"}
    /\ \E html \in RepeatPages :
          \E s \in {Decision_scrape(decision, html)} :
              /\ arg' = html
              /\ decision' = s.self
              /\ ret' = s.val
              /\ raised' = s.exc
              /\ pc' = IF s.exc # NoExc THEN "raised" ELSE "scraped"
    /\ UNCHANGED <<query, params, r, n_results, results, n_pages, page, n, log>>

SpecRecord == InitDecision /\ [][ScrapeAgain]_vars

----------------------------------------------------------------------------
(* Properties of Search.results *)

IsGet(e) == e.ev = "get"
IsYield(e) == e.ev = "yield"
IsSleep(e) == e.ev = "sleep"

\* the get events of a log, in order
Gets(l) == SelectSeq(l, IsGet)

\* the values yielded in a log, in order
RECURSIVE Yielded(_)
Yielded(l) ==
    IF l = <<>> THEN <<>>
    ELSE (IF IsYield(Head(l)) THEN <<Head(l).value>> ELSE <<>>)
         \o Yielded(Tail(l))

\* the records parsed from the pages fetched in a log, in page order and
\* in-page order
RECURSIVE Parsed(_)
Parsed(l) ==
    IF l = <<>> THEN <<>>
    ELSE (IF IsGet(Head(l)) THEN Head(l).results ELSE <<>>) \o Parsed(Tail(l))

Before(l, i) == SubSeq(l, 1, i - 1)

IsPrefix(a, b) == Len(a) <= Len(b) /\ a = SubSeq(b, 1, Len(a))

Ceil(a, b) == (a + b - 1) \div b

BadStatus(sc) == Exc("CaseLawException", "Bad status_code " \o str(sc))

\* the run of results() has ended: the generator returned or raised
Ended == pc \in {"done", "raised"}

\* C1: when the fetch of page 0 returns a non-200 status, the run ends at
\* once with a CaseLawException carrying that status code: no retry, no
\* record yielded.
C1_FirstPageFailureRaises ==
    (log # <<>> /\ log[1].status # 200 /\ pc # "n_pages") =>
        /\ pc = "raised"
        /\ raised = BadStatus(log[1].status)
        /\ Len(log) = 1

\* a later request (page index k >= 1) was answered with a non-200 status
LaterFailure(i) == IsGet(log[i]) /\ log[i].page # "" /\ log[i].status # 200

\* C2: when a request for page k >= 1 is answered with a non-200 status, the
\* run raises CaseLawException there: every record of pages 0..k-1 has been
\* yielded, nothing of page k or later is yielded, and nothing is fetched
\* after the failing request.
C2_LaterFailureAborts ==
    \A i \in DOMAIN log :
        LaterFailure(i) =>
            /\ pc = "raised"
            /\ raised = BadStatus(log[i].status)
            /\ i = Len(log)
            /\ \A j \in 1..(i - 1) : IsGet(log[j]) => log[j].status = 200
            /\ Yielded(log) = Parsed(Before(log, i))

C2_Witness ==
    \E i \in DOMAIN log :
        /\ LaterFailure(i)
        /\ log[i].page = "2"
        /\ Len(Yielded(log)) >= 3

\* C3: when page 0 is fetched with success and reports a total of 0,
\* scrape_results returns (0, []) whatever rows the page holds, and the
\* sequence ends with nothing yielded, no pause and no other fetch.
C3_ZeroTotalEnds ==
    (log # <<>> /\ log[1].status = 200 /\ n_results = 0) =>
        /\ log[1].results = <<>>
        /\ results = <<>>
        /\ pc = "done"
        /\ raised = NoExc
        /\ Len(log) = 1 /\ IsGet(log[1]) /\ log[1].page = ""

C3_Witness ==
    /\ pc = "done"
    /\ n_results = 0
    /\ Len(r.text.rows) = MaxRows
    /\ \E i \in DOMAIN r.text.rows : scrape_one_result(r.text.rows[i]) # PyNone

\* the requests of a log are for pages "", "1", "2", ... in this order
PagesInOrder(l) ==
    \A j \in 1..Len(Gets(l)) :
        Gets(l)[j].page = IF j = 1 THEN "" ELSE str(j - 1)

\* every request but the first comes right after one non-zero pause, and
\* there is no other pause
PausedBeforeEach(l) ==
    /\ l # <<>> => IsGet(l[1])
    /\ \A i \in DOMAIN l :
        /\ (IsGet(l[i]) /\ i > 1) =>
              /\ IsSleep(l[i - 1]) /\ l[i - 1].secs > 0
              /\ i > 2 => ~IsSleep(l[i - 2])
        /\ IsSleep(l[i]) => (i < Len(l) => IsGet(l[i + 1]))

\* a request answered with success: status 200 and a page that parses
Success(e) == e.status = 200 /\ e.parsed

\* C4: for a total T >= 1 reported by page 0, when every response is a
\* success, the run consumed to its end has issued ceil(T/20) - 1 requests
\* after the first, for pages 1, 2, ... in order, each after exactly one
\* non-zero pause and none before the first request; the number depends on
\* the total of page 0 only.
C4_CompleteRunFetchesAllPages ==
    (Ended /\ n_results >= 1
        /\ \A i \in DOMAIN log : IsGet(log[i]) => Success(log[i])) =>
        /\ pc = "done"
        /\ Len(Gets(log)) - 1 = Ceil(n_results, PAGE_SIZE) - 1
        /\ PagesInOrder(log)
        /\ PausedBeforeEach(log)
        /\ Len(SelectSeq(log, IsSleep)) = Len(Gets(log)) - 1

C4_Witness ==
    /\ pc = "done"
    /\ n_results = 2 * PAGE_SIZE + 1
    /\ Len(Gets(log)) = 3
    /\ n \notin {Unbound, n_results}

\* C5: the records of page k are all yielded before the pause for page k+1
\* begins and before page k+1 is fetched, and records are yielded in page
\* order, then in-page order.
C5_YieldBeforePause ==
    /\ \A i \in DOMAIN log :
          (IsSleep(log[i]) \/ IsGet(log[i])) =>
              Yielded(Before(log, i)) = Parsed(Before(log, i))
    /\ IsPrefix(Yielded(log), Parsed(log))
    /\ Ended /\ raised.type # "UnboundLocalError" => Yielded(log) = Parsed(log)

C5_Witness ==
    \E i \in DOMAIN log :
        /\ IsSleep(log[i])
        /\ Len(log[1].results) = 2
        /\ log[i - 1] = YieldEvent(log[1].results[2])
        /\ log[1].results[1] # log[1].results[2]

----------------------------------------------------------------------------
(* Properties of Search.scrape_results *)

\* the extraction of a row raises
RowRaises(row) == ~row.h4 \/ ~row.a \/ row.href = PyNone

\* the page of r has no h1, fewer than two heading lines, or a second line
\* that does not match
BadHeading(html) ==
    \/ ~html.h1
    \/ Len(html.header_strings) < 2
    \/ RESULTS_RE_match(html.header_strings[2]) = PyNone

\* C6: scrape_results fails with CaseLawException when the page has no h1,
\* when the heading has fewer than two lines and when its second line does
\* not match; it neither returns nor fails with another error.
C6_BadHeadingRaisesCaseLawException ==
    (pc # "page" /\ BadHeading(r.text)) =>
        pc = "raised" /\ raised.type = "CaseLawException"

\* C7: with total > 0 and N row containers of which k raise, scrape_results
\* returns exactly N - k records, those of the surviving rows in document
\* order, and no None stands for a skipped row.
C7_SkippedRowsAbsent ==
    (pc = "scraped" /\ n_results > 0) =>
        /\ Len(results) =
              Len(r.text.rows) - Len(SelectSeq(r.text.rows, RowRaises))
        /\ \A i \in DOMAIN results : results[i].t = "Decision"

----------------------------------------------------------------------------
(* Properties of Search.build_query *)

Count(court_type) == Len(COURTS[court_type])

\* the ordinals a request selects in a category (none when not given)
Selected(court_type) ==
    IF query[court_type] = PyNone THEN {} ELSE Range(query[court_type].v)

Flag(court_type) == <<"_" \o court_type, PyStr("on")>>

\* the positions of the flags of a category in a parameter list, in order
FlagPositions(ps, court_type) ==
    SelectSeq([i \in 1..Len(ps) |-> i], LAMBDA i : ps[i] = Flag(court_type))

\* C8: the parameter list starts with the page parameter with value "",
\* followed by one parameter for each of the 11 text fields in the fixed
\* order, a field not set in the request having the value "" and not None.
C8_UnsetTextFieldsEmpty ==
    pc = "built" =>
        /\ params.v[1] = <<"page", PyStr("")>>
        /\ \A i \in 1..Len(TEXT_FIELDS) :
              /\ params.v[i + 1][1] = TEXT_FIELDS[i]
              /\ query[TEXT_FIELDS[i]] = PyNone =>
                    params.v[i + 1][2] = PyStr("")

\* C9: for each category, courts first, and any selection of valid ordinals
\* (none, empty or not given), the list holds exactly one flag per entry of
\* the table, the k-th for entry k whether or not it is selected, and the
\* value parameter of a selected entry comes immediately before its flag.
C9_OneFlagPerEntry ==
    pc = "built" =>
        /\ \A ct \in Range(COURTS_FIELDS) :
              LET fp == FlagPositions(params.v, ct)
              IN  /\ Len(fp) = Count(ct)
                  /\ \A k \in 1..Len(fp) :
                        LET prev == params.v[fp[k] - 1]
                            value == <<ct, PyStr(COURTS[ct][k][1])>>
                        IN  /\ fp[k] > 1 + Len(TEXT_FIELDS)
                            /\ (k \in Selected(ct)) <=> (prev = value)
                            /\ (k \notin Selected(ct)) => prev[1] # ct
        /\ FlagPositions(params.v, "courts")[Count("courts")]
              < FlagPositions(params.v, "tribunals")[1]

C9_Witness ==
    /\ pc = "built"
    /\ query["courts"] = PyList(<<2, 1>>)
    /\ query["tribunals"] = PyList(<<>>)
    /\ params.v[1 + Len(TEXT_FIELDS) + 3] = <<"courts", PyStr(COURTS["courts"][2][1])>>
    /\ params.v[1 + Len(TEXT_FIELDS) + 1] = <<"courts", PyStr(COURTS["courts"][1][1])>>

\* C10 as stated: the number of parameters is fixed by the sizes of the two
\* tables, whatever ordinals are selected.
C10_LengthFixed ==
    pc = "built" =>
        Len(params.v) = 1 + Len(TEXT_FIELDS) + Count("courts") + Count("tribunals")

\* C10, amended: the number of parameters is 1 + 11 + the sizes of the two
\* tables + the number of distinct ordinals selected in each category, so
\* two requests produce lists of the same length exactly when they select
\* the same number of distinct entries in all.
C10_LengthBySelectionSize ==
    pc = "built" =>
        Len(params.v) = 1 + Len(TEXT_FIELDS) + Count("courts") + Count("tribunals")
                        + Cardinality(Selected("courts"))
                        + Cardinality(Selected("tribunals"))

C10_Witness ==
    /\ pc = "built"
    /\ query["courts"] = PyList(<<1, 1>>)
    /\ query["tribunals"] = PyList(<<1, Count("tribunals")>>)
    /\ Len(params.v) = 1 + Len(TEXT_FIELDS) + Count("courts") + Count("tribunals") + 3

\* the value parameters of a category in a parameter list, in order
ValueParams(ps, court_type) == SelectSeq(ps, LAMBDA p : p[1] = court_type)

\* the ordinals a request selects in a category, each once, in the order of
\* the table
InDirectoryOrder(court_type) ==
    SelectSeq([k \in 1..Count(court_type) |-> k],
              LAMBDA k : k \in Selected(court_type))

\* C11: for each category and every list of valid ordinals, repeats
\* included, the parameters named after the category are exactly the
\* identifiers index_to_court returns for the selected ordinals, each once,
\* in the order of the table: one parameter for a single ordinal, and none
\* in a category in which nothing is selected.
C11_ValueParamsAreSelectedIds ==
    pc = "built" =>
        \A ct \in Range(COURTS_FIELDS) :
            LET vp == ValueParams(params.v, ct)
                sel == InDirectoryOrder(ct)
            IN  /\ Len(vp) = Len(sel)
                /\ \A j \in 1..Len(sel) :
                      vp[j] = <<ct, PyStr(index_to_court(ct, sel[j]).val[1])>>

C11_Witness ==
    /\ pc = "built"
    /\ query["courts"] = PyList(<<Count("courts"), 2>>)
    /\ query["tribunals"] = PyNone
    /\ ValueParams(params.v, "courts")
          = << <<"courts", PyStr("54a634063004de94513d827b")>>,
               <<"courts", PyStr("54a634063004de94513d8281")>> >>
    /\ ValueParams(params.v, "tribunals") = <<>>

----------------------------------------------------------------------------
(* Properties of index_to_court *)

OutOfRange == Exc("ValueError", "Court index out of range")

\* a request selects, in some category, an ordinal outside the table
SelectsOutOfRange ==
    \E ct \in Range(COURTS_FIELDS) :
        \E i \in Selected(ct) : i < 1 \/ i > Count(ct)

\* C12: index_to_court(category, ordinal) returns the (identifier, name)
\* pair at the 1-based position ordinal of the table for every ordinal from
\* 1 to the size of the table; it fails with the out-of-range error for 0,
\* a negative ordinal and an ordinal above the size, and with the
\* unknown-category error for any other category; and build_query with an
\* out-of-range selected ordinal fails with the same out-of-range error.
C12_IndexToCourt ==
    /\ (arg # PyNone /\ pc # "lookup") =>
          IF arg.court_type \notin {"courts", "tribunals"}
          THEN /\ pc = "raised"
               /\ raised = Exc("ValueError", "Unknown court type")
          ELSE IF arg.court_idx \in 1..Len(COURTS[arg.court_type])
          THEN /\ pc = "returned"
               /\ raised = NoExc
               /\ ret = COURTS[arg.court_type][arg.court_idx]
          ELSE /\ pc = "raised"
               /\ raised = OutOfRange
    /\ (arg = PyNone /\ pc # "new" /\ SelectsOutOfRange) =>
          /\ pc = "raised"
          /\ raised = OutOfRange

\* the last entry of the longer table is returned
C12_Witness ==
    /\ pc = "returned"
    /\ arg = [court_type |-> "tribunals", court_idx |-> 14]
    /\ ret = <<"54a634063004de94513d8288", "Transport Appeal Boards">>

----------------------------------------------------------------------------
(* Properties of Decision.scrape and the two scrapers *)

\* a scrape has returned the record values
Succeeded == ret.t = "dict"

\* a scrape has returned False
Failed == ret.t = "bool" /\ ~ret.v

\* the page scraped is of the new layout, and its label map can be built
\* and searched: every dt has a string and a dd
NewLayout == arg # PyNone /\ arg.dts # <<>>
Readable ==
    \A i \in DOMAIN arg.dts :
        arg.dts[i].string # PyNone /\ arg.dts[i].dd # PyNone

\* the page scraped is of the old layout
OldLayout == arg # PyNone /\ arg.dts = <<>>

\* the items of the label map whose key holds the substring, in document
\* order
Matching(raw, substring) ==
    SelectSeq(raw, LAMBDA kv : Contains(substring, kv[1].v))

STRING_FIELDS ==
    {"mnc", "hearingDates", "dateOfOrders", "decisionDate", "jurisdiction",
     "before", "decision", "category", "fileNumber"}

LIST_FIELDS ==
    {"catchwords", "legislationCited", "casesCited", "parties",
     "representation", "judgment"}

\* the string fields the new layout stores as found
PLAIN_FIELDS == STRING_FIELDS \ {"decision"}

IsEmptyValue(value) == value = PyStr("") \/ value = PyList(<<>>)

\* C13: in the new layout, for each of the 14 label substrings, a page on
\* which no key holds the substring has the field resolved to the empty
\* string or the empty list and its scrape succeeds; a page on which
\* several keys hold it has the first of them in document order used, and
\* its scrape succeeds.
C13_ZeroOrSeveralMatches ==
    (pc = "scraped" /\ NewLayout /\ Readable) =>
        \A f \in Range(NEW_FIELDS) :
            LET matches == Matching(NewRaw(arg.dts).val,
                                    NEW_SUBSTRINGS[f])
            IN  /\ matches = <<>> =>
                      Succeeded /\ IsEmptyValue(decision[f])
                /\ Len(matches) > 1 =>
                      /\ Succeeded
                      /\ f \in PLAIN_FIELDS => decision[f] = matches[1][2]

\* C14: after any successful scrape of a decision page, of either layout,
\* every declared full field is present with its declared type: the nine
\* string fields are strings and the six list fields are lists, a field
\* absent from the page being "" or [], never None and never a list that
\* holds a single empty string.
C14_FullFieldsTyped ==
    (arg # PyNone /\ Succeeded) =>
        /\ \A f \in STRING_FIELDS :
              f \in DOMAIN decision /\ decision[f].t = "str"
        /\ \A f \in LIST_FIELDS :
              /\ f \in DOMAIN decision
              /\ decision[f].t = "list"
              /\ decision[f].v # <<"">>

\* C15: Decision.scrape never raises because of the content of the page:
\* a failure of the scraper is caught and reported as False, and a
\* successful scrape returns the record values, which are truthy.
C15_ScrapeNeverRaises ==
    arg # PyNone =>
        /\ pc # "raised"
        /\ raised = NoExc
        /\ Failed \/ (Succeeded /\ DOMAIN ret.v # {})
        /\ Failed <=> Scraper_scrape(decision, arg).exc # NoExc

\* a page whose dt has no dd after it makes the scraper raise
\* AttributeError, and scrape has returned False
C15_Witness ==
    /\ pc = "scraped"
    /\ Failed
    /\ NewLayout
    /\ \E i \in DOMAIN arg.dts : arg.dts[i].dd = PyNone
    /\ Scraper_scrape(decision, arg).exc.type = "AttributeError"

\* C16: every call of Decision.fetch is followed by the pause of
\* FETCH_PAUSE_SECONDS before it returns, whether the fetch succeeded or
\* not.
C16_PauseAfterEveryFetch ==
    pc = "fetched" =>
        /\ log # <<>>
        /\ log[Len(log)] = SleepEvent(FETCH_PAUSE_SECONDS)

\* the keys of the record after a scrape of a complete page
FULL_KEYS ==
    Range(BASE_FIELDS) \cup STRING_FIELDS \cup LIST_FIELDS

\* C17: after a successful scrape both layout extractors leave the same
\* set of keys in the record, counsel and solicitors being folded into
\* representation in the old layout.
C17_SameKeysBothLayouts ==
    (arg # PyNone /\ Succeeded) => DOMAIN ret.v = FULL_KEYS

\* the dd of the first dt whose label holds "Decision:"
DecisionDd ==
    LET dts == SelectSeq(arg.dts,
                   LAMBDA dt : Contains(NEW_SUBSTRINGS.decision, dt.string.v))
    IN  dts[1].dd

\* C18: in the new layout the decision field is the first paragraph of the
\* matched value when it is a list of paragraphs and the whole matched
\* text when it is flat text, never a truncation of it.
C18_DecisionFirstParagraphOrWhole ==
    (pc = "scraped" /\ NewLayout /\ Readable /\ Succeeded) =>
        decision.decision =
            IF DecisionDd.paras # <<>>
            THEN PyStr(Scraper_strings(DecisionDd.paras[1]))
            ELSE PyStr(Scraper_strings(DecisionDd))

\* every character of a non-empty text is an asterisk
AllAsterisks(text) ==
    text # "" /\ \A i \in 1..Len(text) : SubSeq(text, i, i) = "*"

\* C19: in the judgment of the new layout a paragraph is dropped only when
\* it has the class disclaimer or lastupdate or its entire text is
\* asterisks: a paragraph with text that merely begins with an asterisk is
\* kept.
C19_OnlyFootersAndAsteriskRunsDropped ==
    (pc = "scraped" /\ NewLayout /\ Succeeded /\ arg.body # PyNone) =>
        \A i \in DOMAIN arg.body.children :
            LET p == arg.body.children[i]
                text == Scraper_strings(p)
                footer == /\ p.class # PyNone
                          /\ Range(p.class.v) \cap {"disclaimer", "lastupdate"}
                                # {}
            IN  (p.name = "p" /\ text # "" /\ ~footer /\ ~AllAsterisks(text))
                    => text \in Range(decision.judgment.v)

\* the lines of the first row whose label holds the substring, none when
\* no row does
RowLines(substring) ==
    LET matches == Matching(OldRaw(arg.trs), substring)
    IN  IF matches = <<>> THEN <<>> ELSE split(matches[1][2].v, "\n")

\* C20: in the old layout representation is the newline-split list of
\* counsel followed by that of solicitors: it starts empty when there is
\* no COUNSEL row, solicitors are appended only when there is a SOLICITORS
\* row, and it is [] when there is neither.
C20_RepresentationCounselThenSolicitors ==
    (pc = "scraped" /\ OldLayout /\ arg.trs # <<>> /\ Succeeded) =>
        decision.representation =
            PyList(RowLines(OLD_SUBSTRINGS.counsel)
                   \o RowLines(OLD_SUBSTRINGS.solicitors))

\* C21: when Decision.scrape returns False the field values of the record
\* are exactly what they were before the call, after any sequence of
\* successful and failed scrapes: the scraped values are merged into the
\* record only once the whole extraction has succeeded.
C21_FailedScrapeLeavesRecordUnchanged ==
    [][(pc' = "scraped" /\ ret'.t = "bool" /\ ~ret'.v)
          => Values(decision') = Values(decision)]_vars

\* a scrape that fails at the parties, after the scraper has found every
\* label, on a record that holds the values of an earlier successful scrape
\* of a page with another title
C21_Witness ==
    /\ pc = "scraped"
    /\ Failed
    /\ arg = [CompleteNewPage EXCEPT !.dts = NewDtsOf([parties |-> "flipped"])]
    /\ Scraper_scrape_title(arg) = PyStr("R v A")
    /\ "judgment" \in DOMAIN decision
    /\ decision.title = PyStr("R v A [2020] NSWSC 1")
    /\ decision.parties = PyList(<<"A (Plaintiff)", "B (Defendant)">>)

====
